---- MODULE Spec2Model ----
(***************************************************************************)
(* Model of bin/mdstatscounters.py: a polling loop that reads the md_stats *)
(* counters of a Lustre MDT, computes the delta of every counter against   *)
(* the previous sample and prints one row per cycle.                       *)
(*                                                                         *)
(* Python values are either ints or strings.  A string is modelled as the  *)
(* sequence of its characters, an int as an integer; both are wrapped in a *)
(* record so that a dictionary may hold either (previous_stats starts with *)
(* the int 0 under 'snapshot_time' and later holds the raw string).        *)
(***************************************************************************)
EXTENDS Integers, Sequences, FiniteSets, TLC

(* ---------------------------------------------------------------- bounds *)
\* largest value of --count that is tried
MaxCount == 1
\* largest value of --interval that is tried
MaxInterval == 1
\* number of read_stats calls after which the model stops following a run
MaxReads == 2
\* largest number of lines of an md_stats file
MaxKeys == 2

(* ------------------------------------------------------ program constants *)
EXIT_OK == 0
EXIT_ERROR == 1
\* exit status of the interpreter when an exception leaves main() uncaught
UncaughtStatus == 1
\* exit status of OptionParser.error()
UsageStatus == 2
\* exit_status while the process is still running
Running == -1

(* ------------------------------------------------------------ the schema *)
\* keys of previous_stats in insertion order (an OrderedDict)
Schema ==
    << "snapshot_time", "open", "close", "mknod", "link", "unlink", "mkdir",
       "rmdir", "rename", "getattr", "setattr", "getxattr", "setxattr",
       "statfs", "sync", "samedir_rename" >>

SchemaNames == { Schema[i] : i \in 1..Len(Schema) }

Ordinary == SchemaNames \ {"snapshot_time"}

\* position of a schema name in the OrderedDict
IndexOf(name) == CHOOSE i \in 1..Len(Schema) : Schema[i] = name

(* ------------------------------------------------------- python values *)
PyInt(n) == [kind |-> "int", i |-> n, s |-> << >>]
PyStr(t) == [kind |-> "str", i |-> 0, s |-> t]

Digits == << "0", "1", "2", "3", "4", "5", "6", "7", "8", "9" >>

DigitSet == { Digits[i] : i \in 1..Len(Digits) }

DigitVal(ch) == (CHOOSE i \in 1..Len(Digits) : Digits[i] = ch) - 1

\* the digits of a string after an optional sign
Unsigned(t) == IF t # << >> /\ Head(t) \in {"+", "-"} THEN Tail(t) ELSE t

\* int(t) succeeds: an optional sign followed by one or more decimal digits
\* (the tokens come from str.split(), so they carry no white space)
IsIntLiteral(t) ==
    /\ Unsigned(t) # << >>
    /\ \A k \in 1..Len(Unsigned(t)) : Unsigned(t)[k] \in DigitSet

RECURSIVE DigitsVal(_)
DigitsVal(t) ==
    IF t = << >> THEN 0
    ELSE 10 * DigitsVal(SubSeq(t, 1, Len(t) - 1)) + DigitVal(t[Len(t)])

\* int(t) for a string t that is an integer literal
ParseInt(t) ==
    IF Head(t) = "-" THEN 0 - DigitsVal(Unsigned(t)) ELSE DigitsVal(Unsigned(t))

RECURSIVE NatStr(_)
NatStr(n) ==
    IF n < 10 THEN << Digits[n + 1] >>
    ELSE NatStr(n \div 10) \o << Digits[(n % 10) + 1] >>

\* str(n) for an int n
IntStr(n) == IF n < 0 THEN << "-" >> \o NatStr(0 - n) ELSE NatStr(n)

\* the text "{}".format(v) inserts for a value v, before padding
FormatValue(v) == IF v.kind = "int" THEN IntStr(v.i) ELSE v.s

(* ------------------------------------------------------------ the source *)
\* names that a line of md_stats may start with: three schema names and one
\* counter of newer Lustre versions that the schema does not know
SnapNames == {"snapshot_time", "open", "statfs", "crossdir_rename"}

\* second token of a line of md_stats
RawVals == { << "0", "7" >>, << "1", "2" >>, << "1", ".", "5" >> }

\* what read_stats may return: a dict of at most MaxKeys entries
Snapshots ==
    UNION { [K -> RawVals] :
            K \in { K \in SUBSET SnapNames : Cardinality(K) <= MaxKeys } }

EmptyDict == [k \in {} |-> << >>]

\* orders in which "for stat in current_stats" may visit the keys of a dict
RECURSIVE Orders(_)
Orders(K) ==
    IF K = {} THEN { << >> }
    ELSE UNION { { << k >> \o o : o \in Orders(K \ {k}) } : k \in K }

(* ------------------------------------------------------------- the state *)
VARIABLES
    pc,              \* position of main()
    options,         \* parsed command line
    rc,              \* main's rc
    sleep_interval,  \* main's sleep_interval
    max_loop,        \* main's max_loop
    current_loop,    \* main's current_loop
    previous_stats,  \* main's previous_stats
    deltas,          \* main's deltas
    current_stats,   \* main's current_stats
    last_stats,      \* history: the snapshot current_stats held before the last read
    reads,           \* history: number of read_stats calls
    header,          \* history: number of headers printed
    rows,            \* history: number of rows printed
    lastrow,         \* history: cells of the last row printed
    sleeps,          \* history: number of completed sleeps
    ack,             \* history: "Exiting" was printed
    exit_status,     \* exit status of the process, Running before it ends
    reason,          \* how the process ended
    headline,        \* history: the header printed, NoLine if none
    rowmode,         \* history: layout of the last row printed
    seen,            \* history: int value of each counter in the last snapshot
                     \* that held it, 0 if none did
    total            \* history: sum of the deltas computed for each counter

vars ==
    << pc, options, rc, sleep_interval, max_loop, current_loop, previous_stats,
       deltas, current_stats, last_stats, reads, header, rows, lastrow,
       sleeps, ack, exit_status, reason, headline, rowmode, seen, total >>

\* nothing printed
NoLine == [mode |-> "none", fields |-> << >>]

\* no counter seen
Zeroes == [c \in Ordinary |-> 0]

\* every command line with an interval up to MaxInterval and a count up to
\* MaxCount
Options ==
    [ noheader : BOOLEAN, table : BOOLEAN, csv : BOOLEAN,
      interval : -1..MaxInterval, count : 0..MaxCount ]

\* the command lines that leave the output flags at their defaults
DefaultFlags ==
    { o \in Options : ~o.noheader /\ ~o.table /\ ~o.csv }

\* main() has been entered with the command line opts and the SIGINT handler
\* is installed
Start(opts) ==
    /\ pc = "parse"
    /\ options = opts
    /\ rc = EXIT_ERROR
    /\ sleep_interval = 0
    /\ max_loop = 0
    /\ current_loop = 0
    /\ previous_stats = EmptyDict
    /\ deltas = EmptyDict
    /\ current_stats = EmptyDict
    /\ last_stats = EmptyDict
    /\ reads = 0
    /\ header = 0
    /\ rows = 0
    /\ lastrow = << >>
    /\ sleeps = 0
    /\ ack = FALSE
    /\ exit_status = Running
    /\ reason = "none"
    /\ headline = NoLine
    /\ rowmode = "none"
    /\ seen = Zeroes
    /\ total = Zeroes

Init == \E opts \in DefaultFlags : Start(opts)

(* ------------------------------------------------------------- the output *)
\* number of replacement fields of the format strings of the table layout
TableColumns == 16

RECURSIVE SeqOfSet(_)
SeqOfSet(S) ==
    IF S = {} THEN << >>
    ELSE LET x == CHOOSE x \in S : TRUE IN << x >> \o SeqOfSet(S \ {x})

\* data.keys() of an OrderedDict built like previous_stats: the schema names
\* in the order of their insertion, then any key inserted later
Keys(data) ==
    SelectSeq(Schema, LAMBDA k : k \in DOMAIN data)
        \o SeqOfSet(DOMAIN data \ SchemaNames)

\* the values of the dict in key order, as format() inserts them
RenderRow(data) ==
    LET keys == Keys(data)
    IN [i \in 1..Len(keys) |-> FormatValue(data[keys[i]])]

\* str.format with replacement fields {0} .. {15} uses its first 16 arguments
TableFields(cells) ==
    [i \in 1..(IF Len(cells) < TableColumns THEN Len(cells) ELSE TableColumns)
        |-> cells[i]]

\* characters that make csv.writer quote a field
CsvSpecial == { ",", "\"", "\r", "\n" }

RECURSIVE CsvDouble(_)
CsvDouble(t) ==
    IF t = << >> THEN << >>
    ELSE (IF Head(t) = "\"" THEN << "\"", "\"" >> ELSE << Head(t) >>)
             \o CsvDouble(Tail(t))

\* a field as csv.writer writes it: quoted, with its quotes doubled, if it
\* holds a special character
CsvField(t) ==
    IF \E k \in 1..Len(t) : t[k] \in CsvSpecial
    THEN << "\"" >> \o CsvDouble(t) \o << "\"" >>
    ELSE t

\* print_header: the line printed; the schema names hold no special
\* character, so csv.writer writes them as they are
HeaderLine(data, table, printcsv) ==
    IF printcsv
    THEN [mode |-> "csv", fields |-> Keys(data)]
    ELSE IF table
    THEN [mode |-> "table", fields |-> TableFields(Keys(data))]
    ELSE [mode |-> "plain", fields |-> << "Stat", "Value" >>]

\* a print_stats that tests table before printcsv
StatsLineTableFirst(data, table, printcsv) ==
    IF table
    THEN [mode |-> "table", names |-> << >>,
          fields |-> TableFields(RenderRow(data))]
    ELSE IF printcsv
    THEN [mode |-> "csv", names |-> << >>,
          fields |-> LET cells == RenderRow(data)
                     IN [i \in 1..Len(cells) |-> CsvField(cells[i])]]
    ELSE [mode |-> "plain", names |-> Keys(data), fields |-> RenderRow(data)]

\* a print_stats whose CSV row is written from the last key to the first
StatsLineCsvReversed(data, table, printcsv) ==
    IF printcsv
    THEN [mode |-> "csv", names |-> << >>,
          fields |-> LET cells == RenderRow(data)
                     IN [i \in 1..Len(cells) |->
                           CsvField(cells[Len(cells) + 1 - i])]]
    ELSE IF table
    THEN [mode |-> "table", names |-> << >>,
          fields |-> TableFields(RenderRow(data))]
    ELSE [mode |-> "plain", names |-> Keys(data), fields |-> RenderRow(data)]

\* print_stats: the values printed, as one CSV line, as one table line, or
\* as one line per key that starts with the name of the key
StatsLine(data, table, printcsv) ==
    IF printcsv
    THEN [mode |-> "csv", names |-> << >>,
          fields |-> LET cells == RenderRow(data)
                     IN [i \in 1..Len(cells) |-> CsvField(cells[i])]]
    ELSE IF table
    THEN [mode |-> "table", names |-> << >>,
          fields |-> TableFields(RenderRow(data))]
    ELSE [mode |-> "plain", names |-> Keys(data), fields |-> RenderRow(data)]

(* ------------------------------------------------------- ending the run *)
\* the process ends with the given exit status; the dictionaries of main()
\* end with it, the scalars are kept to tell how far the run came
Exit(status, why) ==
    /\ pc' = "done"
    /\ exit_status' = status
    /\ reason' = why
    /\ previous_stats' = EmptyDict
    /\ deltas' = EmptyDict
    /\ current_stats' = EmptyDict
    /\ last_stats' = EmptyDict
    /\ seen' = Zeroes
    /\ total' = Zeroes

\* signal_handler exiting with the value rc starts with
signal_handler_error ==
    /\ pc # "done"
    /\ ack' = TRUE
    /\ Exit(EXIT_ERROR, "interrupt")
    /\ UNCHANGED << options, rc, sleep_interval, max_loop, current_loop,
                    reads, header, rows, lastrow, sleeps,
                    headline, rowmode >>

\* signal_handler: SIGINT prints "Exiting" and exits with EXIT_OK.  The
\* handler runs between two byte codes of main() and interrupts time.sleep.
signal_handler ==
    /\ pc # "done"
    /\ ack' = TRUE
    /\ Exit(EXIT_OK, "interrupt")
    /\ UNCHANGED << options, rc, sleep_interval, max_loop, current_loop,
                    reads, header, rows, lastrow, sleeps,
                    headline, rowmode >>

(* ---------------------------------------------------------------- startup *)
\* a parse_cmdline that takes any interval
parse_cmdline_unchecked ==
    /\ pc = "parse"
    /\ sleep_interval' = options.interval
    /\ max_loop' = options.count
    /\ pc' = "init"
    /\ UNCHANGED << options, rc, current_loop, previous_stats, deltas,
                    current_stats, last_stats, reads, header, rows, lastrow,
                    sleeps, ack, exit_status, reason,
                    headline, rowmode, seen, total >>

\* parse_cmdline: a usage error unless interval > 0
parse_cmdline ==
    /\ pc = "parse"
    /\ IF ~(options.interval > 0)
       THEN /\ Exit(UsageStatus, "usage")
            /\ UNCHANGED << sleep_interval, max_loop >>
       ELSE /\ sleep_interval' = options.interval
            /\ max_loop' = options.count
            /\ pc' = "init"
            /\ UNCHANGED << exit_status, reason, previous_stats, deltas,
                            current_stats, last_stats, seen, total >>
    /\ UNCHANGED << options, rc, current_loop, reads, header, rows, lastrow,
                    sleeps, ack,
                    headline, rowmode >>

\* previous_stats gets every schema name with the int 0; deltas is a copy
init_stats ==
    /\ pc = "init"
    /\ previous_stats' = [name \in SchemaNames |-> PyInt(0)]
    /\ deltas' = previous_stats'
    /\ pc' = "header"
    /\ UNCHANGED << options, rc, sleep_interval, max_loop, current_loop,
                    current_stats, last_stats, reads, header, rows, lastrow,
                    sleeps, ack, exit_status, reason,
                    headline, rowmode, seen, total >>

\* a main() that prints the header whatever --no-header says
print_header_always ==
    /\ pc = "header"
    /\ header' = header + 1
    /\ headline' = HeaderLine(deltas, options.table, options.csv)
    /\ current_loop' = 1
    /\ pc' = "read"
    /\ UNCHANGED << options, rc, sleep_interval, max_loop, previous_stats,
                    deltas, current_stats, last_stats, reads, rows, lastrow,
                    sleeps, ack, exit_status, reason,
                    rowmode, seen, total >>

\* print_header unless --no-header, then current_loop = 1
print_header ==
    /\ pc = "header"
    /\ header' = IF ~options.noheader THEN header + 1 ELSE header
    /\ headline' = IF ~options.noheader
                   THEN HeaderLine(deltas, options.table, options.csv)
                   ELSE headline
    /\ current_loop' = 1
    /\ pc' = "read"
    /\ UNCHANGED << options, rc, sleep_interval, max_loop, previous_stats,
                    deltas, current_stats, last_stats, reads, rows, lastrow,
                    sleeps, ack, exit_status, reason,
                    rowmode, seen, total >>

(* --------------------------------------------------------------- sampling *)
\* read_stats returns a dict
read_stats ==
    /\ pc = "read"
    /\ reads < MaxReads
    /\ reads' = reads + 1
    /\ current_stats' \in Snapshots
    /\ last_stats' = current_stats
    /\ pc' = "update"
    /\ UNCHANGED << options, rc, sleep_interval, max_loop, current_loop,
                    previous_stats, deltas, header, rows, lastrow, sleeps,
                    ack, exit_status, reason,
                    headline, rowmode, seen, total >>

\* a main() that catches the exception of read_stats and tries again
read_stats_retries ==
    /\ pc = "read"
    /\ reads < MaxReads
    /\ reads' = reads + 1
    /\ reason' = "read_error"
    /\ pc' = "read"
    /\ UNCHANGED << options, rc, sleep_interval, max_loop, current_loop,
                    previous_stats, deltas, current_stats, last_stats, header,
                    rows, lastrow, sleeps, ack, exit_status,
                    headline, rowmode, seen, total >>

\* a main() that catches the exception of read_stats and leaves with EXIT_OK
read_stats_fails_quietly ==
    /\ pc = "read"
    /\ reads < MaxReads
    /\ reads' = reads + 1
    /\ Exit(EXIT_OK, "read_error")
    /\ UNCHANGED << options, rc, sleep_interval, max_loop, current_loop,
                    header, rows, lastrow, sleeps, ack,
                    headline, rowmode >>

\* read_stats raises (open() fails, or a line has fewer than two tokens);
\* nothing catches the exception
read_stats_fails ==
    /\ pc = "read"
    /\ reads < MaxReads
    /\ reads' = reads + 1
    /\ Exit(UncaughtStatus, "read_error")
    /\ UNCHANGED << options, rc, sleep_interval, max_loop, current_loop,
                    header, rows, lastrow, sleeps, ack,
                    headline, rowmode >>

(* ------------------------------------------------------------- the deltas *)
\* a delta that forgets the previous value
DeltaUnsubtracted(raw, prev) == ParseInt(raw)

\* a delta that reports 0 for a counter seen for the first time
DeltaFirstZero(raw, prev) == IF prev.i = 0 THEN 0 ELSE ParseInt(raw) - prev.i

\* delta = int(current_stats[stat]) - previous_stats[stat]
Delta(raw, prev) == ParseInt(raw) - prev.i

\* a pass that skips a value int() rejects instead of raising
UpdateStatSkipMalformed(st, cur, stat) ==
    IF stat = "snapshot_time"
    THEN [ prev |-> [st.prev EXCEPT ![stat] = PyStr(cur[stat])],
           dl   |-> [st.dl EXCEPT ![stat] = PyStr(cur[stat])],
           err  |-> "none" ]
    ELSE IF ~IsIntLiteral(cur[stat])
    THEN st
    ELSE IF stat \notin DOMAIN st.prev
    THEN [st EXCEPT !.err = "KeyError"]
    ELSE [ prev |-> [st.prev EXCEPT ![stat] = PyInt(ParseInt(cur[stat]))],
           dl   |-> [st.dl EXCEPT ![stat] = PyInt(Delta(cur[stat], st.prev[stat]))],
           err  |-> "none" ]

\* a pass that treats snapshot_time like every other counter
UpdateStatTimeAsCounter(st, cur, stat) ==
    IF ~IsIntLiteral(cur[stat])
    THEN [st EXCEPT !.err = "ValueError"]
    ELSE IF stat \notin DOMAIN st.prev
    THEN [st EXCEPT !.err = "KeyError"]
    ELSE [ prev |-> [st.prev EXCEPT ![stat] = PyInt(ParseInt(cur[stat]))],
           dl   |-> [st.dl EXCEPT ![stat] = PyInt(Delta(cur[stat], st.prev[stat]))],
           err  |-> "none" ]

\* a pass that takes 0 as the previous value of a key previous_stats lacks
\* and inserts the key
UpdateStatInsertUnknown(st, cur, stat) ==
    IF stat = "snapshot_time"
    THEN [ prev |-> [st.prev EXCEPT ![stat] = PyStr(cur[stat])],
           dl   |-> [st.dl EXCEPT ![stat] = PyStr(cur[stat])],
           err  |-> "none" ]
    ELSE IF ~IsIntLiteral(cur[stat])
    THEN [st EXCEPT !.err = "ValueError"]
    ELSE IF stat \notin DOMAIN st.prev
    THEN [ prev |-> (stat :> PyInt(ParseInt(cur[stat]))) @@ st.prev,
           dl   |-> (stat :> PyInt(ParseInt(cur[stat]))) @@ st.dl,
           err  |-> "none" ]
    ELSE [ prev |-> [st.prev EXCEPT ![stat] = PyInt(ParseInt(cur[stat]))],
           dl   |-> [st.dl EXCEPT ![stat] = PyInt(Delta(cur[stat], st.prev[stat]))],
           err  |-> "none" ]

\* a pass that does not store the new value of a counter
UpdateStatKeepPrevious(st, cur, stat) ==
    IF stat = "snapshot_time"
    THEN [ prev |-> [st.prev EXCEPT ![stat] = PyStr(cur[stat])],
           dl   |-> [st.dl EXCEPT ![stat] = PyStr(cur[stat])],
           err  |-> "none" ]
    ELSE IF ~IsIntLiteral(cur[stat])
    THEN [st EXCEPT !.err = "ValueError"]
    ELSE IF stat \notin DOMAIN st.prev
    THEN [st EXCEPT !.err = "KeyError"]
    ELSE [ prev |-> st.prev,
           dl   |-> [st.dl EXCEPT ![stat] = PyInt(Delta(cur[stat], st.prev[stat]))],
           err  |-> "none" ]

\* one pass of the body of "for stat in current_stats" over the dicts in st;
\* err names the exception the pass raises
UpdateStat(st, cur, stat) ==
    IF stat = "snapshot_time"
    THEN [ prev |-> [st.prev EXCEPT ![stat] = PyStr(cur[stat])],
           dl   |-> [st.dl EXCEPT ![stat] = PyStr(cur[stat])],
           err  |-> "none" ]
    ELSE IF ~IsIntLiteral(cur[stat])
    THEN [st EXCEPT !.err = "ValueError"]
    ELSE IF stat \notin DOMAIN st.prev
    THEN [st EXCEPT !.err = "KeyError"]
    ELSE [ prev |-> [st.prev EXCEPT ![stat] = PyInt(ParseInt(cur[stat]))],
           dl   |-> [st.dl EXCEPT ![stat] = PyInt(Delta(cur[stat], st.prev[stat]))],
           err  |-> "none" ]

\* the for loop over the keys of cur in the given order; an exception ends it
RECURSIVE UpdateLoop(_, _, _)

UpdateLoop(st, cur, order) ==
    IF order = << >> \/ st.err # "none" THEN st
    ELSE UpdateLoop(UpdateStat(st, cur, Head(order)), cur, Tail(order))

\* the int value of each counter in the last snapshot that held it
Seen(old, cur) ==
    [c \in Ordinary |->
        IF c \in DOMAIN cur /\ IsIntLiteral(cur[c]) THEN ParseInt(cur[c])
        ELSE old[c]]

\* the sum of the deltas computed for each counter, dl being the new deltas
Total(old, cur, dl) ==
    [c \in Ordinary |-> IF c \in DOMAIN cur THEN old[c] + dl[c].i ELSE old[c]]

\* the dicts of st with every schema counter missing from cur taken to be 0
MissingAsZero(st, cur) ==
    LET gone == { c \in Ordinary : c \notin DOMAIN cur }
    IN [ prev |-> [c \in DOMAIN st.prev |->
                     IF c \in gone THEN PyInt(0) ELSE st.prev[c]],
         dl   |-> [c \in DOMAIN st.dl |->
                     IF c \in gone THEN PyInt(0 - st.prev[c].i) ELSE st.dl[c]],
         err  |-> "none" ]

\* a for loop that runs over the schema and reads a missing counter as 0
update_stats_missing_as_zero ==
    /\ pc = "update"
    /\ \E st \in { UpdateLoop([prev |-> previous_stats, dl |-> deltas,
                                 err |-> "none"], current_stats, order) :
                          order \in Orders(DOMAIN current_stats) } :
            IF st.err = "none"
            THEN /\ previous_stats' = MissingAsZero(st, current_stats).prev
                 /\ deltas' = MissingAsZero(st, current_stats).dl
                 /\ seen' = Seen(seen, current_stats)
                 /\ total' = Total(total, current_stats,
                                   MissingAsZero(st, current_stats).dl)
                 /\ pc' = "check"
                 /\ UNCHANGED << exit_status, reason, current_stats, last_stats >>
            ELSE Exit(UncaughtStatus, st.err)
    /\ UNCHANGED << options, rc, sleep_interval, max_loop, current_loop,
                    reads, header, rows, lastrow, sleeps, ack,
                    headline, rowmode >>

\* the for loop of main(): the dicts are changed in place, so a pass that
\* raises leaves the changes of the passes before it
update_stats ==
    /\ pc = "update"
    /\ \E st \in { UpdateLoop([prev |-> previous_stats, dl |-> deltas,
                                 err |-> "none"], current_stats, order) :
                          order \in Orders(DOMAIN current_stats) } :
            IF st.err = "none"
            THEN /\ previous_stats' = st.prev
                 /\ deltas' = st.dl
                 /\ seen' = Seen(seen, current_stats)
                 /\ total' = Total(total, current_stats, st.dl)
                 /\ pc' = "check"
                 /\ UNCHANGED << exit_status, reason, current_stats, last_stats >>
            ELSE Exit(UncaughtStatus, st.err)
    /\ UNCHANGED << options, rc, sleep_interval, max_loop, current_loop,
                    reads, header, rows, lastrow, sleeps, ack,
                    headline, rowmode >>

(* ------------------------------------------------------------- the bound *)
\* current_loop > max_loop
LoopDone(cl, ml) == cl > ml

\* a bound that is also applied to max_loop = 0
check_loop_zero_bounded ==
    /\ pc = "check"
    /\ IF max_loop >= 0
       THEN IF LoopDone(current_loop, max_loop)
            THEN pc' = "return" /\ UNCHANGED current_loop
            ELSE pc' = "print" /\ current_loop' = current_loop + 1
       ELSE pc' = "print" /\ UNCHANGED current_loop
    /\ UNCHANGED << options, rc, sleep_interval, max_loop, previous_stats,
                    deltas, current_stats, last_stats, reads, header, rows,
                    lastrow, sleeps, ack, exit_status, reason,
                    headline, rowmode, seen, total >>

\* if max_loop > 0: break when the bound is passed, else count the cycle
check_loop ==
    /\ pc = "check"
    /\ IF max_loop > 0
       THEN IF LoopDone(current_loop, max_loop)
            THEN pc' = "return" /\ UNCHANGED current_loop
            ELSE pc' = "print" /\ current_loop' = current_loop + 1
       ELSE pc' = "print" /\ UNCHANGED current_loop
    /\ UNCHANGED << options, rc, sleep_interval, max_loop, previous_stats,
                    deltas, current_stats, last_stats, reads, header, rows,
                    lastrow, sleeps, ack, exit_status, reason,
                    headline, rowmode, seen, total >>

(* -------------------------------------------------------------- rendering *)
\* print_stats(deltas, ...)
print_stats ==
    /\ pc = "print"
    /\ rows' = rows + 1
    /\ LET line == StatsLine(deltas, options.table, options.csv)
       IN /\ lastrow' = line.fields
          /\ rowmode' = line.mode
    /\ pc' = "sleep"
    /\ UNCHANGED << options, rc, sleep_interval, max_loop, current_loop,
                    previous_stats, deltas, current_stats, last_stats, reads,
                    header, sleeps, ack, exit_status, reason,
                    headline, seen, total >>

\* time.sleep(sleep_interval) returns
sleep ==
    /\ pc = "sleep"
    /\ sleeps' = sleeps + 1
    /\ pc' = "read"
    /\ UNCHANGED << options, rc, sleep_interval, max_loop, current_loop,
                    previous_stats, deltas, current_stats, last_stats, reads,
                    header, rows, lastrow, ack, exit_status, reason,
                    headline, rowmode, seen, total >>

\* return rc, handed to sys.exit
return_rc ==
    /\ pc = "return"
    /\ Exit(rc, "bound")
    /\ UNCHANGED << options, rc, sleep_interval, max_loop, current_loop,
                    reads, header, rows, lastrow, sleeps, ack,
                    headline, rowmode >>

Next ==
    \/ parse_cmdline
    \/ init_stats
    \/ print_header
    \/ read_stats
    \/ read_stats_fails
    \/ update_stats
    \/ check_loop
    \/ print_stats
    \/ sleep
    \/ return_rc
    \/ signal_handler

Spec == Init /\ [][Next]_vars

\* command lines with every layout: --csv and --table in each combination,
\* --no-header with the plain layout, an unbounded and a bounded run
AnyFlags ==
    { o \in Options : /\ o.interval <= 1
                      /\ o.count <= 1
                      /\ o.noheader => (~o.table /\ ~o.csv) }

InitModes == \E opts \in AnyFlags : Start(opts)

\* the runs under every combination of --no-header, --table and --csv
SpecModes == InitModes /\ [][Next]_vars

(* ================================================================ claims *)
\* positions of main() after the for loop has run to its end without raising
AfterUpdate == {"check", "print", "sleep", "read", "return"}

\* the snapshot holds a counter, other than the timestamp, int() rejects
Malformed(snap) ==
    \E k \in DOMAIN snap \ {"snapshot_time"} : ~IsIntLiteral(snap[k])

\* C1: after two snapshots S1 (last_stats) and S2 (current_stats) have been
\* processed one after the other, the delta of every ordinary schema counter
\* present in both is int(S2[c]) - int(S1[c]), and the entry snapshot_time
\* holds the raw value of S2.
C1_ConsecutiveDelta ==
    (pc \in AfterUpdate /\ reads >= 2) =>
        /\ \A c \in (Ordinary \cap DOMAIN current_stats) \cap DOMAIN last_stats :
              deltas[c] = PyInt(ParseInt(current_stats[c]) - ParseInt(last_stats[c]))
        /\ "snapshot_time" \in DOMAIN current_stats =>
              deltas["snapshot_time"] = PyStr(current_stats["snapshot_time"])

\* C1 witness: open went from "07" to "12" and the delta 5 was recorded,
\* together with the raw time stamp of the second snapshot
C1_Witness ==
    /\ pc = "check" /\ reads = 2
    /\ "open" \in DOMAIN last_stats /\ "open" \in DOMAIN current_stats
    /\ "snapshot_time" \in DOMAIN current_stats
    /\ last_stats["open"] = << "0", "7" >>
    /\ current_stats["open"] = << "1", "2" >>
    /\ deltas["open"] = PyInt(5)
    /\ deltas["snapshot_time"] = PyStr(<< "1", ".", "5" >>)

\* C2: a run with count = N > 0 that ends without a failed read, without a
\* malformed value and without an interrupt has rendered exactly N rows.
C2_ExactlyCountRows ==
    (pc = "done" /\ max_loop > 0
        /\ reason \notin {"read_error", "ValueError", "interrupt", "usage"})
    => rows = max_loop

\* C3: with count = N > 0 the source is read at most N times.
C3_ReadsAtMostCount ==
    max_loop > 0 => reads <= max_loop

\* C4: a run that leaves the loop through the iteration bound exits with
\* status 0.
C4_BoundExitsOk ==
    reason = "bound" => exit_status = EXIT_OK

\* C5: a snapshot that omits an ordinary schema counter c, and is otherwise
\* made of schema names with integer values, is processed without failure;
\* whenever a snapshot omitting c is processed, previous_stats[c] is left as
\* it was and deltas[c] is 0 or the delta recorded before, and every counter
\* the snapshot holds gets its new delta and previous value.
C5_MissingCounter ==
    [][ (pc = "update" /\ reason' # "interrupt") =>
          /\ (DOMAIN current_stats \subseteq SchemaNames /\ ~Malformed(current_stats))
                => pc' = "check"
          /\ pc' = "check" =>
                /\ \A c \in Ordinary \ DOMAIN current_stats :
                      /\ previous_stats'[c] = previous_stats[c]
                      /\ deltas'[c] \in {PyInt(0), deltas[c]}
                /\ \A d \in Ordinary \cap DOMAIN current_stats :
                      /\ previous_stats'[d] = PyInt(ParseInt(current_stats[d]))
                      /\ deltas'[d] = PyInt(ParseInt(current_stats[d]) - previous_stats[d].i)
      ]_vars

\* C5 witness: the second snapshot has statfs but no open; open keeps the
\* previous value 7 and the delta 7 of the first snapshot
C5_Witness ==
    /\ pc = "check" /\ reads = 2
    /\ "open" \in DOMAIN last_stats
    /\ "open" \notin DOMAIN current_stats
    /\ "statfs" \in DOMAIN current_stats
    /\ previous_stats["open"] = PyInt(7)
    /\ deltas["open"] = PyInt(7)
    /\ deltas["statfs"] = PyInt(12)

\* C6: the for loop raises only if the snapshot holds a counter, other than
\* the timestamp, whose value int() rejects.
C6_FailsOnlyOnMalformed ==
    [][ (pc = "update" /\ reason' \in {"ValueError", "KeyError"})
            => Malformed(current_stats) ]_vars

\* C7: after the first snapshot has been processed the delta of every
\* ordinary counter it holds is the integer value of the counter, and the
\* first row shows that value.
C7_FirstSample ==
    /\ (pc \in AfterUpdate /\ reads = 1) =>
          \A c \in Ordinary \cap DOMAIN current_stats :
              deltas[c] = PyInt(ParseInt(current_stats[c]))
    /\ (rows = 1 /\ reads = 1) =>
          \A c \in Ordinary \cap DOMAIN current_stats :
              lastrow[IndexOf(c)] = IntStr(ParseInt(current_stats[c]))

\* C7 witness: the first snapshot has open = "07" and the first row shows 7
C7_Witness ==
    /\ rows = 1 /\ reads = 1 /\ pc = "sleep"
    /\ "open" \in DOMAIN current_stats
    /\ current_stats["open"] = << "0", "7" >>
    /\ deltas["open"] = PyInt(7)
    /\ lastrow[2] = << "7" >>

\* C8: the step in which SIGINT arrives ends the run with the message and
\* exit status 0, without a read, a row or the end of a sleep; nothing is
\* read or rendered afterwards.
C8_Interrupt ==
    [][ /\ reason' = "interrupt" =>
              /\ pc' = "done" /\ ack' /\ exit_status' = EXIT_OK
              /\ reads' = reads /\ rows' = rows /\ sleeps' = sleeps
        /\ reason = "interrupt" =>
              /\ reads' = reads /\ rows' = rows /\ exit_status' = exit_status
      ]_vars

\* C8 witness: the interrupt arrived during the sleep after the first row
C8_Witness ==
    /\ reason = "interrupt" /\ pc = "done" /\ ack
    /\ exit_status = EXIT_OK
    /\ rows = 1 /\ sleeps = 0 /\ reads = 1

\* C9: a read that fails ends the run with a failure status; no row is
\* rendered in that step or later and the source is not read again.
C9_ReadFailure ==
    [][ /\ reason' = "read_error" =>
              /\ pc' = "done"
              /\ exit_status' \notin {Running, EXIT_OK}
              /\ rows' = rows
        /\ reason = "read_error" => (reads' = reads /\ rows' = rows)
      ]_vars

\* C9 witness: the second read failed after one row
C9_Witness ==
    /\ reason = "read_error" /\ pc = "done"
    /\ reads = 2 /\ rows = 1
    /\ exit_status = UncaughtStatus

\* C10: processing a snapshot with a malformed counter ends the run with a
\* failure status and renders nothing, wherever the counter comes in the loop.
C10_Malformed ==
    [][ /\ (pc = "update" /\ Malformed(current_stats) /\ reason' # "interrupt") =>
              /\ pc' = "done"
              /\ exit_status' \notin {Running, EXIT_OK}
              /\ rows' = rows /\ lastrow' = lastrow
        /\ reason \in {"ValueError", "KeyError"} => (rows' = rows /\ reads' = reads)
      ]_vars

\* C10 witness: the second snapshot was malformed; the run ended with the
\* one row of the first cycle
C10_Witness ==
    /\ reason = "ValueError" /\ pc = "done" /\ exit_status = UncaughtStatus
    /\ reads = 2 /\ rows = 1

\* C11: with an interval that is not greater than 0 the run ends at the
\* parsing of the command line with a failure status: no header, no read, no
\* row.
C11_BadInterval ==
    ~(options.interval > 0) =>
        /\ pc \in {"parse", "done"}
        /\ header = 0 /\ reads = 0 /\ rows = 0
        /\ (pc = "done" /\ reason # "interrupt") =>
              (reason = "usage" /\ exit_status \notin {Running, EXIT_OK})

\* C11 witness: interval 0 was refused
C11_Witness ==
    /\ options.interval = 0
    /\ pc = "done" /\ reason = "usage" /\ exit_status = UsageStatus
    /\ header = 0 /\ reads = 0 /\ rows = 0

\* C13 as stated: every run ended by an error has exit status 1, and exit
\* status 0 comes from the bound or from an interrupt only.
C13_ErrorStatusOne ==
    /\ reason \in {"usage", "read_error", "ValueError", "KeyError"} =>
          exit_status = 1
    /\ exit_status = 0 => reason \in {"bound", "interrupt"}

\* C13: a run ended by a usage error has exit status 2, a run ended by an
\* exception (unreadable source, malformed or unknown counter) has exit
\* status 1, and exit status 0 comes from the bound or from an interrupt only.
C13_ErrorStatus ==
    /\ reason = "usage" => exit_status = 2
    /\ reason \in {"read_error", "ValueError", "KeyError"} => exit_status = 1
    /\ exit_status = 0 => reason \in {"bound", "interrupt"}

\* C13 witness: the interval -1 was refused and the run ended with status 2
C13_Witness ==
    /\ options.interval = -1
    /\ pc = "done" /\ reason = "usage"
    /\ exit_status = 2

\* C14: with count = 0 the loop is never left through the bound: a run ends
\* by an interrupt or an error only, and current_loop stays at 1.
C14_Unbounded ==
    options.count = 0 =>
        /\ pc # "return"
        /\ reason \in {"none", "interrupt", "usage", "read_error",
                       "ValueError", "KeyError"}
        /\ current_loop <= 1
        /\ pc \in {"read", "update", "check", "print", "sleep"} => current_loop = 1

\* C14 witness: two rows rendered with count = 0, current_loop still 1
C14_Witness ==
    /\ options.count = 0 /\ max_loop = 0
    /\ rows = 2 /\ pc = "sleep" /\ current_loop = 1

\* C17: processing a snapshot that holds snapshot_time stores its raw value
\* in deltas and in previous_stats; processing a snapshot without it leaves
\* both entries as they were.
C17_Timestamp ==
    [][ (pc = "update" /\ pc' = "check") =>
          IF "snapshot_time" \in DOMAIN current_stats
          THEN /\ deltas'["snapshot_time"] = PyStr(current_stats["snapshot_time"])
               /\ previous_stats'["snapshot_time"] = PyStr(current_stats["snapshot_time"])
          ELSE /\ deltas'["snapshot_time"] = deltas["snapshot_time"]
               /\ previous_stats'["snapshot_time"] = previous_stats["snapshot_time"]
      ]_vars

\* C17 witness: the first snapshot had snapshot_time = "07", the second had
\* none; both dicts still hold the string "07"
C17_Witness ==
    /\ pc = "check" /\ reads = 2
    /\ "snapshot_time" \in DOMAIN last_stats
    /\ "snapshot_time" \notin DOMAIN current_stats
    /\ deltas["snapshot_time"] = PyStr(<< "0", "7" >>)
    /\ previous_stats["snapshot_time"] = PyStr(<< "0", "7" >>)

\* C18: a run with count = N > 0 that leaves the loop through the bound has
\* slept N - 1 times.
C18_NoSleepAfterLastRow ==
    (reason = "bound" /\ max_loop > 0) => sleeps = max_loop - 1

\* positions of main() at which previous_stats and deltas exist
Looping == {"header", "read", "update", "check", "print", "sleep", "return"}

\* the sixteen names of the schema, in the order of the claim
SixteenNames ==
    << "snapshot_time", "open", "close", "mknod", "link", "unlink", "mkdir",
       "rmdir", "rename", "getattr", "setattr", "getxattr", "setxattr",
       "statfs", "sync", "samedir_rename" >>

\* C12: the dict handed to print_header and print_stats has the sixteen
\* schema names as its keys, in schema order; a table header shows these
\* sixteen names and a table row the sixteen values in the same order.
C12_SixteenColumns ==
    /\ pc \in Looping => Keys(deltas) = SixteenNames
    /\ headline.mode = "table" => headline.fields = SixteenNames
    /\ rowmode = "table" => Len(lastrow) = 16
    /\ (rowmode = "table" /\ pc = "sleep") =>
          \A i \in 1..16 : lastrow[i] = FormatValue(deltas[SixteenNames[i]])

\* C12 witness: a table row printed from a snapshot that holds statfs only
C12_Witness ==
    /\ options.table /\ ~options.csv /\ ~options.noheader
    /\ pc = "sleep" /\ reads = 1
    /\ DOMAIN current_stats = {"statfs"}
    /\ headline.mode = "table" /\ rowmode = "table"
    /\ Len(headline.fields) = 16 /\ Len(lastrow) = 16
    /\ lastrow[14] = << "1", "2" >>
    /\ lastrow[2] = << "0" >>

\* the layout the flags stand for: CSV before table before plain
Layout(o) == IF o.csv THEN "csv" ELSE IF o.table THEN "table" ELSE "plain"

\* C15: the header and every row of a run have the layout the flags stand
\* for, CSV if --csv is set, else table if --table is set, else plain.
C15_OneLayout ==
    /\ header > 0 => headline.mode = Layout(options)
    /\ rows > 0 => rowmode = Layout(options)
    /\ (header > 0 /\ rows > 0) => headline.mode = rowmode

\* C15 witness: --csv and --table both set, header and two rows in CSV
C15_Witness ==
    /\ options.csv /\ options.table
    /\ header = 1 /\ rows = 2
    /\ headline.mode = "csv" /\ rowmode = "csv"

RECURSIVE CsvUndouble(_)
CsvUndouble(t) ==
    IF t = << >> THEN << >>
    ELSE IF Len(t) >= 2 /\ t[1] = "\"" /\ t[2] = "\""
    THEN << "\"" >> \o CsvUndouble(Tail(Tail(t)))
    ELSE << Head(t) >> \o CsvUndouble(Tail(t))

\* the text a CSV reader gets back from a field
CsvParse(f) ==
    IF f # << >> /\ Head(f) = "\""
    THEN CsvUndouble(SubSeq(f, 2, Len(f) - 1))
    ELSE f

\* the (name, value) pairs a reader of the CSV header and row of data gets
CsvPairs(data) ==
    LET names == HeaderLine(data, FALSE, TRUE).fields
        cells == StatsLine(data, FALSE, TRUE).fields
    IN [i \in 1..Len(names) |-> << names[i], CsvParse(cells[i]) >>]

\* the (name, value) pairs of the lines of the plain layout of data
PlainPairs(data) ==
    LET line == StatsLine(data, FALSE, FALSE)
    IN [i \in 1..Len(line.names) |-> << line.names[i], line.fields[i] >>]

\* C16: for every deltas handed to print_stats, the CSV header and row have
\* the same number of fields and pair up to the (name, value) pairs of the
\* plain layout, in the same order; the CSV header and row a run has printed
\* pair up to the plain pairs of the deltas they were printed from.
C16_CsvPlainSamePairs ==
    /\ pc = "print" =>
          /\ Len(StatsLine(deltas, FALSE, TRUE).fields)
                = Len(HeaderLine(deltas, FALSE, TRUE).fields)
          /\ CsvPairs(deltas) = PlainPairs(deltas)
    /\ (pc = "sleep" /\ rowmode = "csv" /\ headline.mode = "csv") =>
          /\ Len(lastrow) = Len(headline.fields)
          /\ [i \in 1..Len(lastrow) |->
                << headline.fields[i], CsvParse(lastrow[i]) >>]
                = PlainPairs(deltas)

\* C16 witness: a CSV row with the time stamp "1.5" and the delta 7 of open
C16_Witness ==
    /\ options.csv /\ ~options.noheader
    /\ pc = "sleep" /\ rows = 1
    /\ deltas["open"] = PyInt(7)
    /\ deltas["snapshot_time"] = PyStr(<< "1", ".", "5" >>)
    /\ headline.fields[1] = "snapshot_time" /\ lastrow[1] = << "1", ".", "5" >>
    /\ headline.fields[2] = "open" /\ lastrow[2] = << "7" >>

C20_PreviousIsLastSeen ==
    pc \in Looping =>
        \A c \in Ordinary :
            /\ previous_stats[c] = PyInt(seen[c])
            /\ total[c] = previous_stats[c].i

\* C20 witness: open was 7, then 12: the deltas 7 and 5 add up to 12
C20_Witness ==
    /\ pc = "check" /\ reads = 2
    /\ "open" \in DOMAIN last_stats /\ "open" \in DOMAIN current_stats
    /\ last_stats["open"] = << "0", "7" >>
    /\ current_stats["open"] = << "1", "2" >>
    /\ deltas["open"] = PyInt(5)
    /\ total["open"] = 12
    /\ previous_stats["open"] = PyInt(12)

====
